---- MODULE Spec2Model ----
(***************************************************************************)
(* Model of the visual console of Pandora FMS                              *)
(* (visual_console/src/VisualConsole.ts): the console props decoder, the   *)
(* item factory, the construction of the item collection, the diffing      *)
(* props setter and the disposal of the console.                           *)
(***************************************************************************)
EXTENDS Integers, Sequences, FiniteSets, TLC

VARIABLES
    raw,        \* decoder: the raw object handed to visualConsolePropsDecoder
    decoded,    \* decoder: its outcome (Pending, Throw(..) or Return(props))
    state,      \* console: "Uninitialized" before the constructor, then "Ready"
    items,      \* console: the raw item objects the constructor was given
    props,      \* console: this._props
    elements,   \* console: this.elements, the item instances
    children,   \* DOM: the item elements inside containerRef, in child order
    style,      \* DOM: the values last assigned to containerRef.style
    listeners,  \* items: number of click handlers registered on each instance
    removed,    \* items: number of times each instance's remove() was invoked
    lastCall,   \* the last call made on the console and its arguments
    effects     \* the side effects of the last call, in program order

vars == <<raw, decoded, state, items, props, elements, children, style,
          listeners, removed, lastCall, effects>>

decoderVars == <<raw, decoded>>
consoleVars == <<state, items, props, elements, children, style,
                 listeners, removed, lastCall, effects>>

----------------------------------------------------------------------------
(* Bounds of the model.                                                    *)

MaxStrLen == 2        \* longest raw string handed to the decoder
MaxItems == 3         \* longest list of raw items handed to the constructor
MaxId == 2            \* item ids are 1..MaxId
MaxSize == 1          \* console widths and heights are 0..MaxSize
MaxRemoves == 2       \* an item's remove() is invoked at most this often

----------------------------------------------------------------------------
(* JavaScript values of the raw (UnknownObject) inputs.                    *)

Undefined == [t |-> "undefined"]
Null == [t |-> "null"]
NaN == [t |-> "number", nan |-> TRUE]
Num(n) == [t |-> "number", n |-> n]
Str(s) == [t |-> "string", s |-> s]
Bool(b) == [t |-> "boolean", b |-> b]

IsNaN(v) == v = NaN
IsStr(v) == v.t = "string"
IsNum(v) == v.t = "number" /\ ~IsNaN(v)

\* `x == null` of JavaScript: true of null and of undefined only.
LooseNull(v) == v.t \in {"undefined", "null"}

DigitChars == {"0", "1", "2", "3", "4", "5", "6", "7", "8", "9"}

DigitValue(c) ==
    CASE c = "0" -> 0 [] c = "1" -> 1 [] c = "2" -> 2 [] c = "3" -> 3
      [] c = "4" -> 4 [] c = "5" -> 5 [] c = "6" -> 6 [] c = "7" -> 7
      [] c = "8" -> 8 [] c = "9" -> 9

RECURSIVE SkipSpaces(_)
SkipSpaces(s) ==
    IF s # <<>> /\ Head(s) = " " THEN SkipSpaces(Tail(s)) ELSE s

\* The value of the longest prefix of digits of s, acc being the value of
\* the digits read so far.
RECURSIVE DigitsValue(_, _)
DigitsValue(s, acc) ==
    IF s # <<>> /\ Head(s) \in DigitChars
    THEN DigitsValue(Tail(s), 10 * acc + DigitValue(Head(s)))
    ELSE acc

\* parseInt of a string: leading white space is skipped, a sign is read, then
\* the longest prefix of decimal digits; NaN when there is no digit.
ParseIntString(s) ==
    LET t == SkipSpaces(s)
        neg == t # <<>> /\ Head(t) = "-"
        u == IF t # <<>> /\ Head(t) \in {"-", "+"} THEN Tail(t) ELSE t
    IN  IF u = <<>> \/ Head(u) \notin DigitChars
        THEN NaN
        ELSE Num(IF neg THEN 0 - DigitsValue(u, 0) ELSE DigitsValue(u, 0))

\* parseInt(v): v is converted to a string first. An integer number prints as
\* its digits and parses back to itself; "undefined", "null", "true", "false"
\* and "NaN" have no digit prefix.
parseInt(v) ==
    CASE IsStr(v) -> ParseIntString(v.s)
      [] IsNum(v) -> v
      [] OTHER -> NaN

----------------------------------------------------------------------------
(* lib.ts: parseIntOr, parseBoolean, sizePropsDecoder.                     *)

Throw(msg) == [threw |-> TRUE, error |-> msg]
Return(v) == [threw |-> FALSE, value |-> v]
Pending == [pending |-> TRUE]

\* parseIntOr(value, defaultValue): a number is returned as it is, a non-empty
\* string that parses as an integer is parsed, anything else is the default.
parseIntOr(v, defaultValue) ==
    IF v.t = "number" THEN v
    ELSE IF IsStr(v) /\ Len(v.s) > 0 /\ ~IsNaN(parseInt(v))
         THEN parseInt(v)
         ELSE defaultValue

\* parseBoolean(value): permissive coercion; true for true, a positive number,
\* "1" and "true", false for everything else.
parseBoolean(v) ==
    CASE v.t = "boolean" -> v.b
      [] IsNum(v) -> v.n > 0
      [] IsStr(v) -> v.s \in {<<"1">>, <<"t", "r", "u", "e">>}
      [] OTHER -> FALSE

\* sizePropsDecoder(data): width and height are required and integer-parseable.
sizePropsDecoder(data) ==
    IF \/ LooseNull(data.width) \/ IsNaN(parseInt(data.width))
       \/ LooseNull(data.height) \/ IsNaN(parseInt(data.height))
    THEN Throw("invalid size.")
    ELSE Return([width |-> parseInt(data.width).n,
                 height |-> parseInt(data.height).n])

----------------------------------------------------------------------------
(* visualConsolePropsDecoder.                                              *)

\* An object literal that keeps any string as the background, the empty one
\* too.
DecodedConsolePropsAnyString(data) ==
        [id |-> parseInt(data.id).n,
         name |-> data.name,
         groupId |-> parseInt(data.groupId).n,
         backgroundURL |->
             IF IsStr(data.backgroundURL) THEN data.backgroundURL ELSE Null,
         backgroundColor |->
             IF IsStr(data.backgroundColor) THEN data.backgroundColor ELSE Null,
         isFavorite |-> parseBoolean(data.isFavorite),
         width |-> sizePropsDecoder(data).value.width,
         height |-> sizePropsDecoder(data).value.height]

\* The object literal the decoder returns once id, name, groupId and the size
\* have passed their checks.
DecodedConsoleProps(data) ==
        [id |-> parseInt(data.id).n,
         name |-> data.name,
         groupId |-> parseInt(data.groupId).n,
         backgroundURL |->
             IF IsStr(data.backgroundURL) /\ Len(data.backgroundURL.s) > 0
             THEN data.backgroundURL ELSE Null,
         backgroundColor |->
             IF IsStr(data.backgroundColor) /\ Len(data.backgroundColor.s) > 0
             THEN data.backgroundColor ELSE Null,
         isFavorite |-> parseBoolean(data.isFavorite),
         width |-> sizePropsDecoder(data).value.width,
         height |-> sizePropsDecoder(data).value.height]

\* The decoder without the test of the length of name.
visualConsolePropsDecoderAnyName(data) ==
    IF LooseNull(data.id) \/ IsNaN(parseInt(data.id))
    THEN Throw("invalid Id.")
    ELSE IF ~IsStr(data.name)
    THEN Throw("invalid name.")
    ELSE IF LooseNull(data.groupId) \/ IsNaN(parseInt(data.groupId))
    THEN Throw("invalid group Id.")
    ELSE IF sizePropsDecoder(data).threw
    THEN sizePropsDecoder(data)
    ELSE Return(DecodedConsoleProps(data))

visualConsolePropsDecoder(data) ==
    IF LooseNull(data.id) \/ IsNaN(parseInt(data.id))
    THEN Throw("invalid Id.")
    ELSE IF ~IsStr(data.name) \/ Len(data.name.s) = 0
    THEN Throw("invalid name.")
    ELSE IF LooseNull(data.groupId) \/ IsNaN(parseInt(data.groupId))
    THEN Throw("invalid group Id.")
    ELSE IF sizePropsDecoder(data).threw
    THEN sizePropsDecoder(data)
    ELSE Return(DecodedConsoleProps(data))

----------------------------------------------------------------------------
(* VisualConsoleItem.ts and items/*.ts: the item types and the decoders of *)
(* the item props.                                                         *)

VisualConsoleItemType ==
    [STATIC_GRAPH |-> 0, MODULE_GRAPH |-> 1, SIMPLE_VALUE |-> 2,
     PERCENTILE_BAR |-> 3, LABEL |-> 4, ICON |-> 5, SIMPLE_VALUE_MAX |-> 6,
     SIMPLE_VALUE_MIN |-> 7, SIMPLE_VALUE_AVG |-> 8, PERCENTILE_BUBBLE |-> 9,
     SERVICE |-> 10, GROUP_ITEM |-> 11, BOX_ITEM |-> 12, LINE_ITEM |-> 13,
     AUTO_SLA_GRAPH |-> 14, CIRCULAR_PROGRESS_BAR |-> 15,
     CIRCULAR_INTERIOR_PROGRESS_BAR |-> 16, DONUT_GRAPH |-> 17,
     BARS_GRAPH |-> 18, CLOCK |-> 19, COLOR_CLOUD |-> 20]

\* The props every item has: id is required and integer-parseable, isOnTop is
\* coerced to a boolean.
itemBasePropsDecoder(data) ==
    IF LooseNull(data.id) \/ IsNaN(parseInt(data.id))
    THEN Throw("invalid id.")
    ELSE Return([id |-> parseInt(data.id).n,
                 isOnTop |-> parseBoolean(data.isOnTop)])

staticGraphPropsDecoder(data) == itemBasePropsDecoder(data)
iconPropsDecoder(data) == itemBasePropsDecoder(data)
groupPropsDecoder(data) == itemBasePropsDecoder(data)
colorCloudPropsDecoder(data) == itemBasePropsDecoder(data)

\* new StaticGraph(props), new Icon(props), ...: an instance of the item class
\* holding the decoded props; the decoder's exception passes through.
NewItem(class, decodedProps) ==
    IF decodedProps.threw THEN decodedProps
    ELSE Return([class |-> class, props |-> decodedProps.value])

----------------------------------------------------------------------------
(* itemInstanceFrom.                                                       *)

\* The factory with a default branch that builds a static graph.
itemInstanceFromDefaultGraph(data) ==
    LET type == parseIntOr(data.type, Null) IN
    IF LooseNull(type) THEN Throw("missing item type.")
    ELSE IF IsNaN(type) THEN Throw("item not found")
    ELSE CASE type.n = VisualConsoleItemType.ICON ->
                  NewItem("Icon", iconPropsDecoder(data))
           [] type.n = VisualConsoleItemType.GROUP_ITEM ->
                  NewItem("Group", groupPropsDecoder(data))
           [] type.n = VisualConsoleItemType.COLOR_CLOUD ->
                  NewItem("ColorCloud", colorCloudPropsDecoder(data))
           [] OTHER -> NewItem("StaticGraph", staticGraphPropsDecoder(data))

itemInstanceFrom(data) ==
    LET type == parseIntOr(data.type, Null) IN
    IF LooseNull(type) THEN Throw("missing item type.")
    ELSE IF IsNaN(type) THEN Throw("item not found")
    ELSE CASE type.n = VisualConsoleItemType.STATIC_GRAPH ->
                  NewItem("StaticGraph", staticGraphPropsDecoder(data))
           [] type.n = VisualConsoleItemType.ICON ->
                  NewItem("Icon", iconPropsDecoder(data))
           [] type.n = VisualConsoleItemType.GROUP_ITEM ->
                  NewItem("Group", groupPropsDecoder(data))
           [] type.n = VisualConsoleItemType.COLOR_CLOUD ->
                  NewItem("ColorCloud", colorCloudPropsDecoder(data))
           [] OTHER -> Throw("item not found")

----------------------------------------------------------------------------
(* The side effects a call leaves behind, in program order.                *)

StyleWrite(attr, value) == [op |-> "style", target |-> attr, value |-> value]
PushEffect(key) == [op |-> "push", target |-> key, value |-> Null]
OnClickEffect(key) == [op |-> "onClick", target |-> key, value |-> Null]
AppendEffect(key) == [op |-> "append", target |-> key, value |-> Null]
LogEffect(index, message) == [op |-> "log", target |-> index, value |-> message]
ItemRemoveEffect(key, threw) ==
    [op |-> "itemRemove", target |-> key, value |-> threw]

\* The template string `${n}px`.
Px(n) == [px |-> n]

----------------------------------------------------------------------------
(* VisualConsole: render, sizeChanged, resizeElement.                      *)

\* A comparison of sizes that always reports a change.
sizeChangedAlways(prevSize, newSize) == TRUE

\* A comparison of sizes that looks at the width only.
sizeChangedInWidth(prevSize, newSize) ==
    prevSize.width # newSize.width

sizeChanged(prevSize, newSize) ==
    prevSize.width # newSize.width \/ prevSize.height # newSize.height

\* A resize that leaves the height of the container alone.
resizeElementWidthOnly(width, height) ==
    << StyleWrite("width", Px(width)) >>

resizeElement(width, height) ==
    << StyleWrite("width", Px(width)), StyleWrite("height", Px(height)) >>

\* A render that repaints everything whatever the previous props were.
renderFull(prevProps, thisProps) ==
    << StyleWrite("backgroundImage", thisProps.backgroundURL),
       StyleWrite("backgroundColor", thisProps.backgroundColor),
       StyleWrite("width", Px(thisProps.width)),
       StyleWrite("height", Px(thisProps.height)) >>

\* render(prevProps) on a console whose props are thisProps: the assignments
\* to containerRef.style it makes. prevProps is Null for the first render.
render(prevProps, thisProps) ==
    IF prevProps # Null
    THEN (IF prevProps.backgroundURL # thisProps.backgroundURL
          THEN << StyleWrite("backgroundImage", thisProps.backgroundURL) >>
          ELSE << >>)
         \o
         (IF prevProps.backgroundColor # thisProps.backgroundColor
          THEN << StyleWrite("backgroundColor", thisProps.backgroundColor) >>
          ELSE << >>)
         \o
         (IF sizeChanged(prevProps, thisProps)
          THEN resizeElement(thisProps.width, thisProps.height)
          ELSE << >>)
    ELSE << StyleWrite("backgroundImage", thisProps.backgroundURL),
            StyleWrite("backgroundColor", thisProps.backgroundColor) >>
         \o resizeElement(thisProps.width, thisProps.height)

\* containerRef.style after the assignments of writes, in order.
RECURSIVE ApplyWrites(_, _)
ApplyWrites(st, writes) ==
    IF writes = << >> THEN st
    ELSE ApplyWrites([st EXCEPT ![Head(writes).target] = Head(writes).value],
                     Tail(writes))

----------------------------------------------------------------------------
(* VisualConsole: the constructor.                                         *)

\* A comparator that puts the smaller id first.
compareIdAscending(a, b) ==
    IF a.props.isOnTop /\ ~b.props.isOnTop THEN 1
    ELSE IF ~a.props.isOnTop /\ b.props.isOnTop THEN -1
    ELSE IF a.props.id > b.props.id THEN 1
    ELSE -1

\* The comparator handed to this.elements.sort.
compare(a, b) ==
    IF a.props.isOnTop /\ ~b.props.isOnTop THEN 1
    ELSE IF ~a.props.isOnTop /\ b.props.isOnTop THEN -1
    ELSE IF a.props.id < b.props.id THEN 1
    ELSE -1

Injections(n) == {f \in [1..n -> 1..n] : \A i, j \in 1..n : f[i] = f[j] => i = j}

\* s.sort(compare): the arrangements of s in which no element stands before
\* one that compare puts it after. Two elements that compare puts before each
\* other (it answers -1 both ways for equal isOnTop and id) are left in an
\* order the engine chooses.
SortOutcomes(s) ==
    {p \in {[i \in 1..Len(s) |-> s[f[i]]] : f \in Injections(Len(s))} :
        \A i, j \in 1..Len(p) : i < j => compare(p[i], p[j]) <= 0}

\* A loop body that keeps the instance but does not put its element in the
\* container.
ConstructItemDetached(c, item, i) ==
    LET made == itemInstanceFrom(item) IN
    IF ~made.threw
    THEN LET itemInstance == [key |-> i, class |-> made.value.class,
                              props |-> made.value.props]
         IN  [c EXCEPT !.elements = c.elements \o << itemInstance >>,
                       !.listeners = c.listeners \cup {i},
                       !.effects = c.effects \o
                           << PushEffect(i), OnClickEffect(i) >>]
    ELSE [c EXCEPT !.effects = c.effects \o << LogEffect(i, made.error) >>]

\* The body of items.forEach, for the item at index i: c holds elements, the
\* children of containerRef, the click listeners and the effects so far.
ConstructItem(c, item, i) ==
    LET made == itemInstanceFrom(item) IN
    IF ~made.threw
    THEN LET itemInstance == [key |-> i, class |-> made.value.class,
                              props |-> made.value.props]
         IN  [elements |-> c.elements \o << itemInstance >>,
              listeners |-> c.listeners \cup {i},
              children |-> c.children \o << i >>,
              effects |-> c.effects \o
                  << PushEffect(i), OnClickEffect(i), AppendEffect(i) >>]
    ELSE [c EXCEPT !.effects = c.effects \o << LogEffect(i, made.error) >>]

\* A loop without the try block: the first exception ends it.
RECURSIVE ForEachItemUncaught(_, _, _)
ForEachItemUncaught(c, list, i) ==
    IF i > Len(list) \/ itemInstanceFrom(list[i]).threw THEN c
    ELSE ForEachItemUncaught(ConstructItem(c, list[i], i), list, i + 1)

\* A loop that runs before the first render: the four assignments of the
\* render come after the effects of the items.
RECURSIVE ForEachItemBeforeRender(_, _, _)
ForEachItemBeforeRender(c, list, i) ==
    IF i > Len(list)
    THEN [c EXCEPT !.effects = SubSeq(c.effects, 5, Len(c.effects))
                                   \o SubSeq(c.effects, 1, 4)]
    ELSE ForEachItemBeforeRender(ConstructItem(c, list[i], i), list, i + 1)

RECURSIVE ForEachItem(_, _, _)
ForEachItem(c, list, i) ==
    IF i > Len(list) THEN c
    ELSE ForEachItem(ConstructItem(c, list[i], i), list, i + 1)

\* new VisualConsole(container, props, items)
Construct(PropsDomain, ItemLists) ==
    /\ state = "Uninitialized"
    /\ \E newProps \in PropsDomain, list \in ItemLists :
        LET first == render(Null, newProps)
            c == ForEachItem([elements |-> << >>, listeners |-> {},
                              children |-> << >>, effects |-> first],
                             list, 1)
        IN  /\ state' = "Ready"
            /\ items' = list
            /\ props' = newProps
            /\ style' = ApplyWrites(style, first)
            /\ elements' \in SortOutcomes(c.elements)
            /\ children' = c.children
            /\ listeners' = [k \in c.listeners |-> 1]
            /\ removed' = [k \in c.listeners |-> 0]
            /\ effects' = c.effects
            /\ lastCall' = [name |-> "constructor", prevProps |-> Null,
                            threw |-> FALSE]
    /\ UNCHANGED decoderVars

----------------------------------------------------------------------------
(* VisualConsole: the props setter and resize.                             *)

\* A setter that also drops the last instance of the collection.
SetPropsToDroppingLast(name, newProps) ==
    LET prevProps == props
        writes == render(prevProps, newProps)
    IN  /\ props' = newProps
        /\ style' = ApplyWrites(style, writes)
        /\ effects' = writes
        /\ lastCall' = [name |-> name, prevProps |-> prevProps, threw |-> FALSE]
        /\ elements' = SubSeq(elements, 1, Len(elements) - 1)
        /\ UNCHANGED <<state, items, children, listeners, removed,
                       decoderVars>>

\* set props(newProps): the stored props are replaced, then render(prevProps).
SetPropsTo(name, newProps) ==
    LET prevProps == props
        writes == render(prevProps, newProps)
    IN  /\ props' = newProps
        /\ style' = ApplyWrites(style, writes)
        /\ effects' = writes
        /\ lastCall' = [name |-> name, prevProps |-> prevProps, threw |-> FALSE]
        /\ UNCHANGED <<state, items, elements, children, listeners, removed,
                       decoderVars>>

SetProps(PropsDomain) ==
    /\ state = "Ready"
    /\ \E newProps \in PropsDomain : SetPropsTo("setProps", newProps)

\* A resize that builds the props anew and leaves the background out.
resizeWithoutSpread(thisProps, width, height) ==
    [thisProps EXCEPT !.width = width, !.height = height,
                      !.backgroundURL = Null, !.isFavorite = FALSE]

\* { ...this.props, width, height }
resize(thisProps, width, height) ==
    [thisProps EXCEPT !.width = width, !.height = height]

Resize(Widths, Heights) ==
    /\ state = "Ready"
    /\ \E width \in Widths, height \in Heights :
        SetPropsTo("resize", resize(props, width, height))

----------------------------------------------------------------------------
(* VisualConsole: remove.                                                  *)

\* this.elements.forEach(e => e.remove()) over els from index i on. The item's
\* remove() detaches its element and releases its listeners; failAt is the
\* index of the item whose remove() throws, 0 when none does. The exception
\* ends the loop.
RECURSIVE ForEachRemove(_, _, _, _)
ForEachRemove(c, els, i, failAt) ==
    IF i > Len(els) THEN c
    ELSE LET k == els[i].key
             called == [c EXCEPT !.removed[k] = c.removed[k] + 1] IN
         IF i = failAt
         THEN [called EXCEPT !.threw = TRUE,
                             !.effects = c.effects \o << ItemRemoveEffect(k, TRUE) >>]
         ELSE ForEachRemove(
                  [called EXCEPT
                      !.children = SelectSeq(c.children, LAMBDA x : x # k),
                      !.listeners[k] = 0,
                      !.effects = c.effects \o << ItemRemoveEffect(k, FALSE) >>],
                  els, i + 1, failAt)

\* A remove() that keeps the collection.
removeKeepingElements(els, c, failAt) ==
    ForEachRemove(c, els, 1, failAt)

\* remove(): the collection is emptied after the loop, unless the loop threw.
remove(els, c, failAt) ==
    LET after == ForEachRemove(c, els, 1, failAt) IN
    [after EXCEPT !.elements = IF after.threw THEN els ELSE << >>]

Remove(FailAts) ==
    /\ state = "Ready"
    /\ \A k \in DOMAIN removed : removed[k] < MaxRemoves
    /\ \E failAt \in FailAts :
        /\ failAt <= Len(elements)
        /\ LET after == remove(elements,
                               [elements |-> elements, children |-> children,
                                listeners |-> listeners, removed |-> removed,
                                effects |-> << >>, threw |-> FALSE],
                               failAt)
           IN  /\ elements' = after.elements
               /\ children' = after.children
               /\ listeners' = after.listeners
               /\ removed' = after.removed
               /\ effects' = after.effects
               /\ lastCall' = [name |-> "remove", prevProps |-> Null,
                               threw |-> after.threw]
    /\ UNCHANGED <<state, items, props, style, decoderVars>>

----------------------------------------------------------------------------
(* The inputs.                                                             *)

Chars == {"1", "7", "a", "-", " "}

RECURSIVE StringsOfLen(_)
StringsOfLen(n) ==
    IF n = 0 THEN {<< >>}
    ELSE {<<c>> \o s : c \in Chars, s \in StringsOfLen(n - 1)}

Strings == UNION {StringsOfLen(n) : n \in 0..MaxStrLen}

\* The raw values of a field that is meant to hold an integer.
RawIntegers ==
    {Undefined, Null, NaN, Num(3), Bool(TRUE)} \cup {Str(s) : s \in Strings}

RawNames == {Undefined, Null, Num(1), Str(<< >>), Str(<<"a">>)}
RawColors == {Undefined, Null, Num(0), Str(<< >>), Str(<<"c">>)}
RawFlags == {Undefined, Num(1), Str(<<"a">>)}
RawSizes == {Undefined, Num(1), Str(<<"7">>)}

RawConsoles ==
    [id : RawIntegers, name : RawNames,
     groupId : {Undefined, Num(1), Str(<<"a">>), Str(<<"7">>)},
     backgroundURL : RawColors, backgroundColor : RawColors,
     isFavorite : RawFlags, width : RawSizes, height : {Num(1)}]

\* The typed console props handed to the constructor and to the setter.
AllProps ==
    [id : {1}, name : {Str(<<"a">>)}, groupId : {1},
     backgroundURL : {Null, Str(<<"u">>)},
     backgroundColor : {Null, Str(<<"c">>)},
     isFavorite : BOOLEAN, width : 0..MaxSize, height : 0..MaxSize]

FewProps ==
    {p \in AllProps : /\ p.backgroundURL = Null /\ p.backgroundColor = Null
                      /\ ~p.isFavorite /\ p.height = 0 /\ p.width <= 1}

RawItem(type, id, isOnTop) == [type |-> type, id |-> id, isOnTop |-> isOnTop]

\* The decimal digit of a small number, as a string.
DigitString(i) ==
    << CHOOSE c \in DigitChars : DigitValue(c) = i >>

\* Raw items that make an instance, of every id: icons that are not on top, and
\* groups on top whose fields are strings and numbers to be coerced.
GoodItems ==
    {RawItem(Num(5), Num(i), Bool(FALSE)) : i \in 1..MaxId}
    \cup {RawItem(Str(<<"1", "1">>), Str(DigitString(i)), Num(1)) : i \in 1..MaxId}

\* Raw items that make none: no type, a type that is no number, a type with
\* no class, a type outside the enumeration, an icon without an id.
BadItems ==
    {RawItem(Undefined, Num(1), Bool(FALSE)),
     RawItem(Str(<<"a">>), Num(1), Bool(FALSE)),
     RawItem(Num(1), Num(1), Bool(FALSE)),
     RawItem(Num(99), Num(1), Bool(FALSE)),
     RawItem(Num(5), Undefined, Bool(FALSE))}

ListsOf(S) == UNION {[1..n -> S] : n \in 0..MaxItems}

AllItemLists == ListsOf(GoodItems \cup BadItems)
FewItemLists == {<< >>, << RawItem(Num(5), Num(1), Bool(FALSE)) >>}
GoodItemLists == ListsOf({RawItem(Num(5), Num(i), Bool(FALSE)) : i \in 1..MaxId})

----------------------------------------------------------------------------
(* The specifications.                                                     *)

NoConsole ==
    /\ state = "Uninitialized"
    /\ items = << >>
    /\ props = Null
    /\ elements = << >>
    /\ children = << >>
    /\ style = [backgroundImage |-> Undefined, backgroundColor |-> Undefined,
                width |-> Undefined, height |-> Undefined]
    /\ listeners = << >>
    /\ removed = << >>
    /\ lastCall = [name |-> "none", prevProps |-> Null, threw |-> FALSE]
    /\ effects = << >>

NoDecoder == raw = Null /\ decoded = Pending

\* The life of one console: built from any list of raw items, updated, removed.
Init == NoConsole /\ NoDecoder

Next ==
    \/ Construct(FewProps, AllItemLists)
    \/ SetProps(FewProps)
    \/ Resize(0..1, {0})
    \/ Remove({0})

Spec == Init /\ [][Next]_vars

\* The props of a console: every props value, few items.
NextRender ==
    \/ Construct(AllProps, FewItemLists)
    \/ SetProps(AllProps)
    \/ Resize(0..MaxSize, 0..MaxSize)
    \/ Remove({0})

SpecRender == Init /\ [][NextRender]_vars

\* A console whose items' remove() may throw.
NextFaulty ==
    \/ Construct(FewProps, GoodItemLists)
    \/ SetProps(FewProps)
    \/ Resize(0..1, {0})
    \/ Remove(0..MaxItems)

SpecFaulty == Init /\ [][NextFaulty]_vars

\* The decoder of the console props, applied to every raw object.
InitDecoder == NoConsole /\ raw \in RawConsoles /\ decoded = Pending

Decode ==
    /\ decoded = Pending
    /\ decoded' = visualConsolePropsDecoder(raw)
    /\ UNCHANGED <<raw, consoleVars>>

SpecDecoder == InitDecoder /\ [][Decode]_vars

----------------------------------------------------------------------------
(* The claims.                                                             *)

Constructed == lastCall.name = "constructor"

\* The indices of the raw items handed to the constructor that itemInstanceFrom
\* rejects, and of those it accepts.
FailedItems == {i \in 1..Len(items) : itemInstanceFrom(items[i]).threw}
BuiltItems == (1..Len(items)) \ FailedItems

KeysOf(els) == {els[i].key : i \in 1..Len(els)}

\* C1: of N raw items of which K make itemInstanceFrom throw, the constructor
\* keeps exactly N-K instances in elements, one for each item that did not
\* throw and none for one that did.
C1_CollectionHoldsTheBuiltItems ==
    Constructed =>
        /\ state = "Ready"
        /\ Len(elements) = Len(items) - Cardinality(FailedItems)
        /\ KeysOf(elements) = BuiltItems
        /\ \A i, j \in 1..Len(elements) :
               elements[i].key = elements[j].key => i = j

C1_Witness ==
    /\ Constructed
    /\ Len(items) = 3
    /\ FailedItems = {2}
    /\ Len(elements) = 2

RenderedProps == {"backgroundURL", "backgroundColor", "width", "height"}
Changed(prevProps, newProps) ==
    {a \in RenderedProps : prevProps[a] # newProps[a]}

\* The style attributes the last call assigned, in order.
StyleTargets ==
    [i \in 1..Len(effects) |-> effects[i].target]
WritesTo(attr) ==
    Cardinality({i \in 1..Len(effects) :
                     effects[i].op = "style" /\ effects[i].target = attr})

SetPropsCalled == lastCall.name = "setProps"

\* C3: a props assignment whose width, height, backgroundURL and
\* backgroundColor equal the stored ones assigns no style attribute.
C3_UnchangedPropsWriteNothing ==
    (SetPropsCalled /\ Changed(lastCall.prevProps, props) = {}) =>
        /\ effects = << >>
        /\ \A a \in {"backgroundImage", "backgroundColor", "width", "height"} :
               WritesTo(a) = 0

\* The new props differ from the stored ones in isFavorite only: a background
\* image and a width of 1 are stored, and nothing is assigned.
C3_Witness ==
    /\ SetPropsCalled
    /\ Changed(lastCall.prevProps, props) = {}
    /\ lastCall.prevProps # props
    /\ props.backgroundURL # Null
    /\ props.width = 1
    /\ effects = << >>

\* C4: a props assignment that changes backgroundColor only makes exactly one
\* style assignment, to backgroundColor, and none to backgroundImage, width
\* or height.
C4_ColorChangeWritesColorOnly ==
    (SetPropsCalled /\ Changed(lastCall.prevProps, props) = {"backgroundColor"}) =>
        /\ Len(effects) = 1
        /\ WritesTo("backgroundColor") = 1
        /\ WritesTo("backgroundImage") = 0
        /\ WritesTo("width") = 0
        /\ WritesTo("height") = 0
        /\ style.backgroundColor = props.backgroundColor

C4_Witness ==
    /\ SetPropsCalled
    /\ Changed(lastCall.prevProps, props) = {"backgroundColor"}
    /\ props.backgroundColor = Str(<<"c">>)
    /\ effects = << StyleWrite("backgroundColor", Str(<<"c">>)) >>

\* C5, as claimed: a props assignment that changes exactly one of
\* backgroundURL, backgroundColor, width and height makes exactly one style
\* assignment.
C5_OneChangeOneWrite ==
    (SetPropsCalled /\ Cardinality(Changed(lastCall.prevProps, props)) = 1) =>
        Len(effects) = 1

\* C5, amended: a change of backgroundURL only assigns backgroundImage only, a
\* change of backgroundColor only assigns backgroundColor only, and a change
\* of width only or of height only assigns both width and height, in this
\* order, and no background attribute.
C5_OneChangeOnePatch ==
    SetPropsCalled =>
        LET changed == Changed(lastCall.prevProps, props) IN
        /\ changed = {"backgroundURL"} =>
               effects = << StyleWrite("backgroundImage", props.backgroundURL) >>
        /\ changed = {"backgroundColor"} =>
               effects = << StyleWrite("backgroundColor", props.backgroundColor) >>
        /\ changed \in {{"width"}, {"height"}} =>
               effects = << StyleWrite("width", Px(props.width)),
                            StyleWrite("height", Px(props.height)) >>

\* The width alone changed, and width and height were both assigned.
C5_Witness ==
    /\ SetPropsCalled
    /\ Changed(lastCall.prevProps, props) = {"width"}
    /\ StyleTargets = <<"width", "height">>

\* C6: after a remove() the collection is empty; another remove() does not
\* throw, leaves it empty and invokes no item's remove() a second time.
C6_RemoveIsIdempotent ==
    /\ lastCall.name = "remove" => elements = << >> /\ ~lastCall.threw
    /\ \A k \in DOMAIN removed : removed[k] <= 1
    /\ (lastCall.name = "remove" /\ effects = << >>) =>
           \A k \in DOMAIN removed : removed[k] = 1 /\ listeners[k] = 0

\* A remove() of a console whose two items an earlier remove() had removed.
C6_Witness ==
    /\ lastCall.name = "remove"
    /\ effects = << >>
    /\ elements = << >>
    /\ Cardinality(DOMAIN removed) = 2
    /\ \A k \in DOMAIN removed : removed[k] = 1

\* The raw values of the type of an item.
RawTypes == RawIntegers \cup {Num(n) : n \in (-1..21) \cup {99}}

\* The types that have a class.
ImplementedTypes ==
    {VisualConsoleItemType.STATIC_GRAPH, VisualConsoleItemType.ICON,
     VisualConsoleItemType.GROUP_ITEM, VisualConsoleItemType.COLOR_CLOUD}

\* A string of which parseInt makes an integer: white space, a sign at most,
\* then a digit.
HasIntegerPrefix(s) ==
    \E i \in 1..Len(s) :
        /\ s[i] \in DigitChars
        /\ \A j \in 1..(i - 1) :
               s[j] = " " \/ (j = i - 1 /\ s[j] \in {"-", "+"})

IntegerParseable(v) == IsNum(v) \/ (IsStr(v) /\ HasIntegerPrefix(v.s))

\* The type is absent, is no integer, or is an integer without a class.
TypeWithoutClass(v) ==
    \/ LooseNull(v)
    \/ ~IntegerParseable(v)
    \/ parseInt(v).n \notin ImplementedTypes

LogsOf(i) == {n \in 1..Len(effects) : effects[n].op = "log" /\ effects[n].target = i}

\* C7: itemInstanceFrom throws for every raw item whose type is absent, is not
\* integer-parseable or names no implemented class (tried on every raw type
\* before the console is built); the constructor catches the exception, and
\* builds an instance for every other raw item of the list.
C7_BadTypeIsSkipped ==
    /\ state = "Uninitialized" =>
           \A v \in RawTypes :
               TypeWithoutClass(v) =>
                   itemInstanceFrom(RawItem(v, Num(1), Bool(FALSE))).threw
    /\ Constructed =>
           /\ state = "Ready" /\ ~lastCall.threw
           /\ \A i \in 1..Len(items) :
                  IF TypeWithoutClass(items[i].type)
                  THEN i \notin KeysOf(elements) /\ Cardinality(LogsOf(i)) = 1
                  ELSE IntegerParseable(items[i].id) => i \in KeysOf(elements)

\* An item without a type, one of a type without a class and an icon: the icon,
\* the last of the three, is built.
C7_Witness ==
    /\ Constructed
    /\ Len(items) = 3
    /\ items[1].type = Undefined
    /\ items[2].type = Num(1)
    /\ KeysOf(elements) = {3}
    /\ LogsOf(1) # {} /\ LogsOf(2) # {}

ConsoleFields ==
    {"id", "name", "groupId", "backgroundURL", "backgroundColor",
     "isFavorite", "width", "height"}

\* C8: the decoder throws for a raw object whose id or groupId is missing or
\* not integer-parseable or whose name is missing, not a string or empty; what
\* it returns is a record with every field of the console props.
C8_DecoderThrowsOrReturnsAll ==
    decoded # Pending =>
        /\ (\/ LooseNull(raw.id) \/ ~IntegerParseable(raw.id)
            \/ ~IsStr(raw.name) \/ raw.name.s = << >>
            \/ LooseNull(raw.groupId) \/ ~IntegerParseable(raw.groupId))
               => decoded.threw /\ DOMAIN decoded = {"threw", "error"}
        /\ ~decoded.threw =>
               /\ DOMAIN decoded.value = ConsoleFields
               /\ decoded.value.id \in Int
               /\ decoded.value.groupId \in Int
               /\ IsStr(decoded.value.name) /\ decoded.value.name.s # << >>

\* A raw object that lacks nothing but a name with a character in it.
C8_Witness ==
    /\ decoded # Pending
    /\ decoded.threw
    /\ raw.id = Str(<<" ", "7">>)
    /\ raw.name = Str(<< >>)
    /\ raw.groupId = Num(1)
    /\ raw.width = Num(1)

\* C9, as claimed: after construction the item elements stand in the container
\* in the order of the sorted collection.
C9_ChildrenInStackingOrder ==
    Constructed => children = [i \in 1..Len(elements) |-> elements[i].key]

\* C10, as claimed: the remove() of every instance is invoked at most once,
\* and exactly once as soon as the console's remove() has been called.
C10_EachItemRemovedOnce ==
    /\ \A k \in DOMAIN removed : removed[k] <= 1
    /\ lastCall.name = "remove" => \A k \in DOMAIN removed : removed[k] = 1

ResizeCalled == lastCall.name = "resize"

\* C11: resize(width, height) replaces width and height in the stored props
\* and nothing else, assigns what the setter's render of the previous props
\* assigns, never a background attribute, and assigns nothing when width and
\* height are the stored ones.
C11_ResizeChangesSizeOnly ==
    ResizeCalled =>
        /\ \A f \in ConsoleFields \ {"width", "height"} :
               props[f] = lastCall.prevProps[f]
        /\ WritesTo("backgroundImage") = 0
        /\ WritesTo("backgroundColor") = 0
        /\ IF props.width = lastCall.prevProps.width
              /\ props.height = lastCall.prevProps.height
           THEN effects = << >>
           ELSE /\ StyleTargets = <<"width", "height">>
                /\ style.width = Px(props.width)
                /\ style.height = Px(props.height)

\* A resize of a favorite console with a background to another height, and a
\* resize to the size it has.
C11_Witness ==
    /\ ResizeCalled
    /\ props.isFavorite
    /\ props.backgroundURL # Null
    /\ props.backgroundColor # Null
    /\ props.height # lastCall.prevProps.height
    /\ props.width = lastCall.prevProps.width
    /\ StyleTargets = <<"width", "height">>

SetOf(seq) == {seq[i] : i \in 1..Len(seq)}

EffectsOn(op, key) ==
    {n \in 1..Len(effects) : effects[n].op = op /\ effects[n].target = key}

\* C12: after construction the item elements in the container are those of the
\* instances of the collection, each once; each instance has one click handler;
\* one diagnostic was logged for each raw item that failed and none for the
\* others; a failed raw item has no instance, no element and no handler.
C12_SurfaceHoldsTheCollection ==
    Constructed =>
        /\ SetOf(children) = KeysOf(elements)
        /\ Len(children) = Len(elements)
        /\ DOMAIN listeners = KeysOf(elements)
        /\ \A k \in KeysOf(elements) :
               /\ listeners[k] = 1
               /\ Cardinality(EffectsOn("onClick", k)) = 1
               /\ Cardinality(EffectsOn("append", k)) = 1
               /\ EffectsOn("log", k) = {}
        /\ \A i \in FailedItems :
               /\ Cardinality(EffectsOn("log", i)) = 1
               /\ i \notin KeysOf(elements)
               /\ i \notin SetOf(children)
               /\ i \notin DOMAIN listeners
               /\ EffectsOn("push", i) \cup EffectsOn("onClick", i)
                      \cup EffectsOn("append", i) = {}

\* An icon, an item of a type outside the enumeration and a group: two
\* instances, two elements in the container, one diagnostic for the second.
C12_Witness ==
    /\ Constructed
    /\ Len(items) = 3
    /\ items[1].type = Num(5)
    /\ items[2].type = Num(99)
    /\ items[3].type = Str(<<"1", "1">>)
    /\ Len(elements) = 2
    /\ children = <<1, 3>>
    /\ EffectsOn("log", 2) # {}

StyleAttributes == {"backgroundImage", "backgroundColor", "width", "height"}

\* C13: the constructor assigns the four style attributes of the container,
\* from the props it was given, before it handles the first raw item: no
\* instance is pushed, subscribed or appended and no diagnostic is logged
\* before the four assignments.
C13_FirstRenderBeforeItems ==
    Constructed =>
        /\ Len(effects) >= 4
        /\ \A n \in 1..4 : effects[n].op = "style"
        /\ [n \in 1..4 |-> effects[n].target] =
               <<"backgroundImage", "backgroundColor", "width", "height">>
        /\ [n \in 1..4 |-> effects[n].value] =
               << props.backgroundURL, props.backgroundColor,
                  Px(props.width), Px(props.height) >>
        /\ \A n \in 1..Len(effects) :
               effects[n].op # "style" =>
                   \A a \in StyleAttributes :
                       \E m \in 1..(n - 1) :
                           effects[m].op = "style" /\ effects[m].target = a
        /\ \A n \in 5..Len(effects) : effects[n].op # "style"

\* A failed raw item and two built ones: the diagnostic of the first is the
\* fifth effect of the constructor, after the four assignments.
C13_Witness ==
    /\ Constructed
    /\ Len(elements) = 2
    /\ FailedItems = {1}
    /\ effects[4].op = "style"
    /\ effects[5].op = "log"
    /\ effects[6].op = "push"

\* C14, as claimed: the comparator never puts two instances of the collection
\* before each other nor after each other, two instances of equal id and
\* isOnTop and an instance and itself included, so that the collection has a
\* single sorted arrangement, the same for every order of the raw items.
C14_ComparatorIsATotalOrder ==
    Constructed =>
        /\ \A i, j \in 1..Len(elements) :
               /\ ~(compare(elements[i], elements[j]) < 0
                    /\ compare(elements[j], elements[i]) < 0)
               /\ ~(compare(elements[i], elements[j]) > 0
                    /\ compare(elements[j], elements[i]) > 0)
        /\ SortOutcomes(elements) = {elements}

\* A raw value that is a string with a character in it.
NonEmptyString(v) == IsStr(v) /\ v.s # << >>

\* C15: the decoder returns null for a backgroundURL or backgroundColor that
\* is absent, null, the empty string or no string, and returns a string with
\* a character in it as it is: each of the two fields of the record is null or
\* a non-empty string.
C15_EmptyBackgroundIsNull ==
    (decoded # Pending /\ ~decoded.threw) =>
        \A f \in {"backgroundURL", "backgroundColor"} :
            /\ raw[f] \in {Undefined, Null, Str(<< >>)} => decoded.value[f] = Null
            /\ ~IsStr(raw[f]) => decoded.value[f] = Null
            /\ NonEmptyString(raw[f]) => decoded.value[f] = raw[f]
            /\ decoded.value[f] = Null \/ NonEmptyString(decoded.value[f])

\* An empty string as backgroundURL and a color: null and the color.
C15_Witness ==
    /\ decoded # Pending
    /\ ~decoded.threw
    /\ raw.backgroundURL = Str(<< >>)
    /\ raw.backgroundColor = Str(<<"c">>)
    /\ decoded.value.backgroundURL = Null
    /\ decoded.value.backgroundColor = Str(<<"c">>)

\* C16: once the console is built, whatever props assignments and resizes were
\* made, the values last assigned to the style of the container are those of
\* the stored props: backgroundImage is backgroundURL, backgroundColor is
\* backgroundColor, width and height are the width and height in px.
C16_StyleMirrorsProps ==
    state = "Ready" =>
        /\ style.backgroundImage = props.backgroundURL
        /\ style.backgroundColor = props.backgroundColor
        /\ style.width = Px(props.width)
        /\ style.height = Px(props.height)

\* An assignment of props that changed the background image and the height
\* and nothing else, on props that a resize had set.
C16_Witness ==
    /\ SetPropsCalled
    /\ Changed(lastCall.prevProps, props) = {"backgroundURL", "height"}
    /\ StyleTargets = <<"backgroundImage", "width", "height">>
    /\ style.backgroundImage = Str(<<"u">>)
    /\ style.height = Px(1)
    /\ style.backgroundColor = Str(<<"c">>)

\* C17: a props assignment and a resize leave the collection and the elements
\* in the container as they are; once the console is built no call adds an
\* instance, and the collection changes only in a remove(), which empties it.
C17_OnlyRemoveChangesTheCollection ==
    [][state = "Ready" =>
          /\ lastCall'.name \in {"setProps", "resize"} =>
                 elements' = elements /\ children' = children
          /\ Len(elements') <= Len(elements)
          /\ elements' # elements =>
                 lastCall'.name = "remove" /\ elements' = << >>]_vars

\* A resize to another width of a console that holds three instances.
C17_Witness ==
    /\ ResizeCalled
    /\ props.width # lastCall.prevProps.width
    /\ Len(elements) = 3
    /\ [i \in 1..3 |-> elements[i].key] = <<2, 1, 3>>

====
